---- MODULE Spec2Model ----
(***************************************************************************)
(* Hit-testing retrieval of api/services/hit_testing_service.py:           *)
(* HitTestingService.retrieve (fork/join over the search strategy threads, *)
(* optional rerank, DatasetQuery log write) followed by                    *)
(* compact_retrieve_response / get_tsne_positions_from_embeddings.         *)
(*                                                                         *)
(* A query text is a sequence of characters.  A Document is abstracted to  *)
(* its metadata [doc_id, score].  A t-SNE position is a record [x, y]; the *)
(* reducer is stochastic, so its output is a nondeterministic choice.      *)
(* Perplexity is a Python float with a possible .5 fraction: it is kept    *)
(* exactly as twice its value (perplexity_x2).                             *)
(***************************************************************************)
EXTENDS Integers, Sequences, FiniteSets, Bags, TLC

VARIABLES dataset, query, retrieval_model, segments,
          pc, error, threads, wpc, found, cursor, calls,
          all_documents, rerank_calls, rerank_input, dataset_queries,
          embedding_length, perplexity_x2, tsne_position_data, result

vars == <<dataset, query, retrieval_model, segments,
          pc, error, threads, wpc, found, cursor, calls,
          all_documents, rerank_calls, rerank_input, dataset_queries,
          embedding_length, perplexity_x2, tsne_position_data, result>>

-----------------------------------------------------------------------------
(* Bounds and program constants *)

\* longest result list one search strategy returns
MaxResults == 2
\* largest vector count of the stand-alone perplexity check
MaxVectors == 60
\* len(query) > 250
MaxQueryLength == 250
\* default_retrieval_model['top_k']
TopK == 2

Workers == {"embedding_search", "full_text_index_search"}
SearchMethods == {"semantic_search", "full_text_search", "hybrid_search"}
DocIds == {"d1", "d2"}
Fragments == {[doc_id |-> "d1", score |-> 1], [doc_id |-> "d2", score |-> 2]}
QueryLengths == {0, 1, MaxQueryLength, MaxQueryLength + 1}
Queries == {[i \in 1..n |-> "q"] : n \in QueryLengths}
Datasets == [id : {"ds1"}, available_document_count : 0..1,
             available_segment_count : 0..1]
RetrievalModels == [search_method : SearchMethods, reranking_enable : BOOLEAN,
                    top_k : {TopK}]
Account == [id |-> "acc1"]
NoResult == [query |-> [content |-> <<>>, tsne_position |-> [x |-> -9, y |-> -9]],
             records |-> <<[none |-> TRUE]>>]
ZeroPosition == [x |-> 0, y |-> 0]
\* values the reducer may give one point
TsneOutputs == {[x |-> 0, y |-> 0], [x |-> 1, y |-> -1]}

SeqsUpTo(S, n) == UNION {[1..k -> S] : k \in 0..n}

-----------------------------------------------------------------------------
(* Pure parts of the code *)

\* variant: the length test written with >=
ArgsCheckFailsAtLimit(q) == q = <<>> \/ Len(q) >= MaxQueryLength

\* hit_testing_args_check: not query or len(query) > 250
ArgsCheckFails(q) == q = <<>> \/ Len(q) > MaxQueryLength

\* variant: the two counts joined by "and"
IsEmptyDatasetBoth(ds) ==
    ds.available_document_count = 0 /\ ds.available_segment_count = 0

\* retrieve, line 34
IsEmptyDataset(ds) ==
    ds.available_document_count = 0 \/ ds.available_segment_count = 0

\* retrieve, line 64
RunsSemantic(search_method) ==
    search_method = "semantic_search" \/ search_method = "hybrid_search"

\* variant: the hybrid alternative left out
RunsFullTextOnly(search_method) == search_method = "full_text_search"

\* retrieve, line 80
RunsFullText(search_method) ==
    search_method = "full_text_search" \/ search_method = "hybrid_search"

\* retrieve, line 98
RunsRerank(search_method) == search_method = "hybrid_search"

\* variant: only the thread started last is joined
AllJoinedLastOnly(ths, st) ==
    ths # <<>> => st[ths[Len(ths)]] \in {"done", "failed"}

\* variant: only the thread started first is joined
AllJoinedFirstOnly(ths, st) ==
    ths # <<>> => st[ths[1]] \in {"done", "failed"}

\* for thread in threads: thread.join()
AllJoined(ths, st) ==
    \A k \in 1..Len(ths) : st[ths[k]] \in {"done", "failed"}

\* variant: the entry tagged with another source
DatasetQueryAppSource(ds, q, account) ==
    [dataset_id |-> ds.id, content |-> q, source |-> "app",
     created_by_role |-> "account", created_by |-> account.id]

\* DatasetQuery(...) of lines 119-125
DatasetQuery(ds, q, account) ==
    [dataset_id |-> ds.id, content |-> q, source |-> "hit_testing",
     created_by_role |-> "account", created_by |-> account.id]

\* RerankRunner.run: re-scored candidates in descending score order,
\* at most top_n of them
RerankOutputs(documents, top_n) ==
    {[i \in 1..Len(f) |-> documents[f[i]]] :
        f \in {g \in SeqsUpTo(1..Len(documents), top_n) :
                 \A a, b \in 1..Len(g) : a # b => g[a] # g[b]}}

\* perplexity = embedding_length / 2 + 1, clamped (lines 194-196), times 2
Max(a, b) == IF a >= b THEN a ELSE b
\* variant: the clamp tested with >
PerplexityX2Strict(n) ==
    LET p2 == n + 2
    IN  IF p2 > 2 * n THEN 2 * Max(n - 1, 1) ELSE p2

PerplexityX2(n) ==
    LET p2 == n + 2
    IN  IF p2 >= 2 * n THEN 2 * Max(n - 1, 1) ELSE p2

\* variant: the degenerate test written with <
TsnePositionsNoDegenerate(n) ==
    IF n < 1 THEN {<<ZeroPosition>>} ELSE [1..n -> TsneOutputs]

\* get_tsne_positions_from_embeddings: the lists it may return
TsnePositions(n) ==
    IF n <= 1 THEN {<<ZeroPosition>>} ELSE [1..n -> TsneOutputs]

\* perplexity handed to TSNE (0: the reducer is not run)
TsnePerplexityX2(n) == IF n <= 1 THEN 0 ELSE PerplexityX2(n)

\* variant: the cursor is not advanced for a dropped fragment
SkipMissingNoAdvance(i) == i

\* cursor after a fragment whose segment is missing (lines 164-166)
SkipMissing(i) == i + 1

\* the loop of compact_retrieve_response (lines 152-176); k is the loop's
\* place in documents (1-based), i the 0-based cursor into tsne
RECURSIVE CompactRecords(_, _, _, _, _, _)
CompactRecords(documents, segs, tsne, k, i, records) ==
    IF k > Len(documents) THEN records
    ELSE IF documents[k].doc_id \notin segs
         THEN CompactRecords(documents, segs, tsne, k + 1, SkipMissing(i), records)
         ELSE CompactRecords(documents, segs, tsne, k + 1, i + 1,
                 Append(records, [segment |-> documents[k].doc_id,
                                  score |-> documents[k].score,
                                  tsne_position |-> tsne[i + 1]]))

-----------------------------------------------------------------------------
(* The request: caller, retrieve, strategy threads *)

Init ==
    /\ dataset \in Datasets
    /\ query \in Queries
    /\ retrieval_model \in RetrievalModels
    /\ segments \in SUBSET DocIds
    /\ pc = "args_check"
    /\ error = "none"
    /\ threads = <<>>
    /\ wpc = [w \in Workers |-> "unstarted"]
    /\ found = [w \in Workers |-> <<>>]
    /\ cursor = [w \in Workers |-> 0]
    /\ calls = [w \in Workers |-> 0]
    /\ all_documents = <<>>
    /\ rerank_calls = 0
    /\ rerank_input = <<>>
    /\ dataset_queries = <<>>
    /\ embedding_length = 0
    /\ perplexity_x2 = 0
    /\ tsne_position_data = <<>>
    /\ result = NoResult

\* the caller validates the arguments, then calls retrieve
ArgsCheck ==
    /\ pc = "args_check"
    /\ IF ArgsCheckFails(query)
       THEN pc' = "error" /\ error' = "ValueError"
       ELSE pc' = "retrieve" /\ error' = error
    /\ UNCHANGED <<dataset, query, retrieval_model, segments, threads, wpc,
                   found, cursor, calls, all_documents, rerank_calls,
                   rerank_input, dataset_queries, embedding_length,
                   perplexity_x2, tsne_position_data, result>>

\* retrieve, lines 34-61
RetrieveEnter ==
    /\ pc = "retrieve"
    /\ IF IsEmptyDataset(dataset)
       THEN /\ result' = [query |-> [content |-> query,
                                     tsne_position |-> ZeroPosition],
                          records |-> <<>>]
            /\ pc' = "done"
       ELSE /\ result' = result
            /\ pc' = "start_embedding"
    /\ UNCHANGED <<dataset, query, retrieval_model, segments, error, threads,
                   wpc, found, cursor, calls, all_documents, rerank_calls,
                   rerank_input, dataset_queries, embedding_length,
                   perplexity_x2, tsne_position_data>>

StartThread(w) ==
    /\ threads' = Append(threads, w)
    /\ wpc' = [wpc EXCEPT ![w] = "search"]
    /\ calls' = [calls EXCEPT ![w] = @ + 1]

\* retrieve, lines 64-77
StartEmbeddingThread ==
    /\ pc = "start_embedding"
    /\ IF RunsSemantic(retrieval_model.search_method)
       THEN StartThread("embedding_search")
       ELSE UNCHANGED <<threads, wpc, calls>>
    /\ pc' = "start_full_text"
    /\ UNCHANGED <<dataset, query, retrieval_model, segments, error, found,
                   cursor, all_documents, rerank_calls, rerank_input,
                   dataset_queries, embedding_length, perplexity_x2,
                   tsne_position_data, result>>

\* retrieve, lines 80-93
StartFullTextThread ==
    /\ pc = "start_full_text"
    /\ IF RunsFullText(retrieval_model.search_method)
       THEN StartThread("full_text_index_search")
       ELSE UNCHANGED <<threads, wpc, calls>>
    /\ pc' = "join"
    /\ UNCHANGED <<dataset, query, retrieval_model, segments, error, found,
                   cursor, all_documents, rerank_calls, rerank_input,
                   dataset_queries, embedding_length, perplexity_x2,
                   tsne_position_data, result>>

WorkerUnchanged ==
    UNCHANGED <<dataset, query, retrieval_model, segments, pc, error, threads,
                calls, rerank_calls, rerank_input, dataset_queries,
                embedding_length, perplexity_x2, tsne_position_data, result>>

\* the strategy's index lookup returns its scored fragments
WorkerSearch(w) ==
    /\ wpc[w] = "search"
    /\ \E r \in SeqsUpTo(Fragments, MaxResults) :
          found' = [found EXCEPT ![w] = r]
    /\ wpc' = [wpc EXCEPT ![w] = "append"]
    /\ UNCHANGED <<cursor, all_documents>>
    /\ WorkerUnchanged

\* the strategy adds one fragment to the shared list all_documents
WorkerAppend(w) ==
    /\ wpc[w] = "append"
    /\ cursor[w] < Len(found[w])
    /\ all_documents' = Append(all_documents, found[w][cursor[w] + 1])
    /\ cursor' = [cursor EXCEPT ![w] = @ + 1]
    /\ UNCHANGED <<wpc, found>>
    /\ WorkerUnchanged

\* the thread's target returns
WorkerReturn(w) ==
    /\ wpc[w] = "append"
    /\ cursor[w] = Len(found[w])
    /\ wpc' = [wpc EXCEPT ![w] = "done"]
    /\ UNCHANGED <<found, cursor, all_documents>>
    /\ WorkerUnchanged

\* the thread's target raises in its index lookup: the thread ends, the
\* exception stays in it
WorkerRaise(w) ==
    /\ wpc[w] = "search"
    /\ wpc' = [wpc EXCEPT ![w] = "failed"]
    /\ UNCHANGED <<found, cursor, all_documents>>
    /\ WorkerUnchanged

\* retrieve, lines 95-96
Join ==
    /\ pc = "join"
    /\ AllJoined(threads, wpc)
    /\ pc' = IF RunsRerank(retrieval_model.search_method) THEN "rerank" ELSE "log"
    /\ UNCHANGED <<dataset, query, retrieval_model, segments, error, threads,
                   wpc, found, cursor, calls, all_documents, rerank_calls,
                   rerank_input, dataset_queries, embedding_length,
                   perplexity_x2, tsne_position_data, result>>

\* retrieve, lines 99-114
Rerank ==
    /\ pc = "rerank"
    /\ rerank_calls' = rerank_calls + 1
    /\ rerank_input' = all_documents
    /\ \E out \in RerankOutputs(all_documents, retrieval_model.top_k) :
          all_documents' = out
    /\ pc' = "log"
    /\ UNCHANGED <<dataset, query, retrieval_model, segments, error, threads,
                   wpc, found, cursor, calls, dataset_queries,
                   embedding_length, perplexity_x2, tsne_position_data, result>>

\* the rerank model call raises a provider error
RerankRaise ==
    /\ pc = "rerank"
    /\ rerank_calls' = rerank_calls + 1
    /\ rerank_input' = all_documents
    /\ pc' = "error"
    /\ error' = "InvokeError"
    /\ UNCHANGED <<dataset, query, retrieval_model, segments, threads, wpc,
                   found, cursor, calls, all_documents, dataset_queries,
                   embedding_length, perplexity_x2, tsne_position_data, result>>

\* retrieve, lines 119-128
WriteLog ==
    /\ pc = "log"
    /\ dataset_queries' = Append(dataset_queries,
                                 DatasetQuery(dataset, query, Account))
    /\ pc' = "project"
    /\ UNCHANGED <<dataset, query, retrieval_model, segments, error, threads,
                   wpc, found, cursor, calls, all_documents, rerank_calls,
                   rerank_input, embedding_length, perplexity_x2,
                   tsne_position_data, result>>

\* compact_retrieve_response, called at line 130
Project ==
    /\ pc = "project"
    /\ LET n == 1 + Len(all_documents)
       IN  /\ embedding_length' = n
           /\ perplexity_x2' = TsnePerplexityX2(n)
           /\ \E tsne \in TsnePositions(n) :
                 /\ tsne_position_data' = Tail(tsne)
                 /\ result' = [query |-> [content |-> query,
                                          tsne_position |-> Head(tsne)],
                               records |-> CompactRecords(all_documents,
                                              segments, Tail(tsne), 1, 0, <<>>)]
    /\ pc' = "done"
    /\ UNCHANGED <<dataset, query, retrieval_model, segments, error, threads,
                   wpc, found, cursor, calls, all_documents, rerank_calls,
                   rerank_input, dataset_queries>>

\* embed_query / embed_documents raise a provider error
ProjectRaise ==
    /\ pc = "project"
    /\ pc' = "error"
    /\ error' = "InvokeError"
    /\ UNCHANGED <<dataset, query, retrieval_model, segments, threads, wpc,
                   found, cursor, calls, all_documents, rerank_calls,
                   rerank_input, dataset_queries, embedding_length,
                   perplexity_x2, tsne_position_data, result>>

Next ==
    \/ ArgsCheck
    \/ RetrieveEnter
    \/ StartEmbeddingThread
    \/ StartFullTextThread
    \/ \E w \in Workers : WorkerSearch(w)
    \/ \E w \in Workers : WorkerAppend(w)
    \/ \E w \in Workers : WorkerReturn(w)
    \/ \E w \in Workers : WorkerRaise(w)
    \/ Join
    \/ Rerank
    \/ RerankRaise
    \/ WriteLog
    \/ Project
    \/ ProjectRaise

Spec == Init /\ [][Next]_vars

-----------------------------------------------------------------------------
(* get_tsne_positions_from_embeddings on its own: the perplexity for every *)
(* vector count up to MaxVectors                                           *)

TsneInit ==
    /\ dataset \in {d \in Datasets : d.available_document_count = 1
                                     /\ d.available_segment_count = 1}
    /\ query = [i \in 1..1 |-> "q"]
    /\ retrieval_model \in {m \in RetrievalModels :
                               m.search_method = "semantic_search"
                               /\ ~m.reranking_enable}
    /\ segments = DocIds
    /\ pc = "tsne"
    /\ error = "none"
    /\ threads = <<>>
    /\ wpc = [w \in Workers |-> "unstarted"]
    /\ found = [w \in Workers |-> <<>>]
    /\ cursor = [w \in Workers |-> 0]
    /\ calls = [w \in Workers |-> 0]
    /\ all_documents = <<>>
    /\ rerank_calls = 0
    /\ rerank_input = <<>>
    /\ dataset_queries = <<>>
    /\ embedding_length \in 1..MaxVectors
    /\ perplexity_x2 = 0
    /\ tsne_position_data = <<>>
    /\ result = NoResult

\* lines 188-196: the perplexity the reducer is constructed with
TsnePerplexity ==
    /\ pc = "tsne"
    /\ perplexity_x2' = TsnePerplexityX2(embedding_length)
    /\ pc' = "tsne_done"
    /\ UNCHANGED <<dataset, query, retrieval_model, segments, error, threads,
                   wpc, found, cursor, calls, all_documents, rerank_calls,
                   rerank_input, dataset_queries, embedding_length,
                   tsne_position_data, result>>

TsneNext == TsnePerplexity

SpecTsne == TsneInit /\ [][TsneNext]_vars

-----------------------------------------------------------------------------
(* Properties *)

NonEmptyDataset ==
    dataset.available_document_count # 0 /\ dataset.available_segment_count # 0

\* retrieve is past the join of its strategy threads
PostJoin ==
    \/ pc \in {"rerank", "log", "project", "done"}
    \/ pc = "error" /\ error = "InvokeError"

\* retrieve is past its rerank step
PostRerank ==
    \/ pc \in {"log", "project", "done"}
    \/ pc = "error" /\ error = "InvokeError" /\ dataset_queries # <<>>
    \/ pc = "error" /\ error = "InvokeError" /\ rerank_calls > 0

BagOfSeq(s) ==
    [e \in {s[i] : i \in DOMAIN s} |-> Cardinality({i \in DOMAIN s : s[i] = e})]

\* C1: if a strategy worker throws, the failure aborts the whole call:
\* nothing is reranked, logged or returned.
C1_WorkerFailureAborts ==
    (\E w \in Workers : wpc[w] = "failed") =>
        /\ rerank_calls = 0
        /\ dataset_queries = <<>>
        /\ result = NoResult
        /\ pc # "done"

\* C2: on a dataset without available documents or segments retrieve returns
\* no records and query position {0,0}; no strategy thread is started, the
\* reranker is not called and no DatasetQuery is written.
C2_EmptyDatasetShortCircuit ==
    (dataset.available_document_count = 0
     \/ dataset.available_segment_count = 0) =>
        /\ threads = <<>>
        /\ \A w \in Workers : wpc[w] = "unstarted" /\ calls[w] = 0
        /\ rerank_calls = 0
        /\ dataset_queries = <<>>
        /\ pc \in {"args_check", "retrieve", "done", "error"}
        /\ pc = "done" =>
              result = [query |-> [content |-> query,
                                   tsne_position |-> [x |-> 0, y |-> 0]],
                        records |-> <<>>]

C2_Witness ==
    /\ pc = "done"
    /\ dataset.available_document_count = 0
    /\ dataset.available_segment_count = 1
    /\ result.records = <<>>

C4_JoinBarrier ==
    /\ PostJoin =>
          \A w \in Workers :
              IF \E k \in 1..Len(threads) : threads[k] = w
              THEN wpc[w] \in {"done", "failed"}
              ELSE wpc[w] = "unstarted"
    /\ (rerank_calls > 0 \/ dataset_queries # <<>> \/ result # NoResult) =>
          \A w \in Workers : wpc[w] \notin {"search", "append"}

C4_Witness ==
    /\ pc = "log"
    /\ Len(threads) = 2
    /\ \A w \in Workers : wpc[w] = "done" /\ found[w] # <<>>
    /\ rerank_calls = 1

\* C5: a call on a non-empty dataset that returns has written exactly one
\* DatasetQuery {dataset_id, content = query, source = 'hit_testing',
\* created_by = account}, also when no fragment was found; it is written
\* after the rerank step and before the projection.
C5_ExactlyOneLog ==
    /\ Len(dataset_queries) <= 1
    /\ pc \in {"args_check", "retrieve", "start_embedding", "start_full_text",
               "join", "rerank", "log"} => dataset_queries = <<>>
    /\ (NonEmptyDataset /\ pc \in {"project", "done"}) =>
          /\ Len(dataset_queries) = 1
          /\ dataset_queries[1].dataset_id = dataset.id
          /\ dataset_queries[1].content = query
          /\ dataset_queries[1].source = "hit_testing"
          /\ dataset_queries[1].created_by = Account.id
    /\ (NonEmptyDataset /\ result # NoResult) => Len(dataset_queries) = 1
    /\ dataset_queries # <<>> =>
          (retrieval_model.search_method = "hybrid_search" => rerank_calls = 1)
    /\ pc = "project" => result = NoResult /\ tsne_position_data = <<>>

C5_Witness ==
    /\ pc = "done"
    /\ NonEmptyDataset
    /\ \A w \in Workers : found[w] = <<>>
    /\ all_documents = <<>>
    /\ result.records = <<>>
    /\ Len(dataset_queries) = 1

\* C6: the records are the fragments whose segment exists, in input order,
\* and the record of the fragment at 0-based input index k carries
\* positions[k+1] of the joint projection (positions[0] is the query's).
C6_RecordAlignment ==
    (pc = "done" /\ NonEmptyDataset) =>
        LET positions == <<result.query.tsne_position>> \o tsne_position_data
            surviving == SelectSeq([k \in 1..Len(all_documents) |-> k],
                            LAMBDA k : all_documents[k].doc_id \in segments)
        IN  /\ Len(positions) = Len(all_documents) + 1
            /\ Len(result.records) = Len(surviving)
            /\ \A j \in 1..Len(surviving) :
                  /\ result.records[j].segment = all_documents[surviving[j]].doc_id
                  /\ result.records[j].score = all_documents[surviving[j]].score
                  /\ result.records[j].tsne_position = positions[surviving[j] + 1]

C6_Witness ==
    /\ pc = "done"
    /\ Len(all_documents) = 2
    /\ all_documents[1].doc_id \notin segments
    /\ all_documents[2].doc_id \in segments
    /\ tsne_position_data[1] # tsne_position_data[2]
    /\ Len(result.records) = 1
    /\ result.records[1].tsne_position = tsne_position_data[2]

\* C7: exactly the empty queries and those longer than 250 characters are
\* rejected (251 is, 250 and 1 are not), and the rejection comes before any
\* thread is started or log entry written.
C7_QueryValidation ==
    /\ pc # "args_check" =>
          (error = "ValueError" <=> (Len(query) = 0 \/ Len(query) > 250))
    /\ (pc # "args_check" /\ Len(query) = 251) => error = "ValueError"
    /\ (pc # "args_check" /\ Len(query) = 250) => error # "ValueError"
    /\ (Len(query) = 0 \/ Len(query) > 250) =>
          /\ pc \in {"args_check", "error"}
          /\ threads = <<>>
          /\ \A w \in Workers : wpc[w] = "unstarted"
          /\ rerank_calls = 0
          /\ dataset_queries = <<>>
          /\ result = NoResult

C7_Witness ==
    /\ Len(query) = 251
    /\ pc = "error"
    /\ error = "ValueError"

\* C8: after the join the pooled list holds exactly the fragments of the
\* started strategy threads, as a multiset, whatever the interleaving; in
\* hybrid mode that is what the reranker is given.
C8_PooledFragments ==
    PostJoin =>
        LET pooled == IF rerank_calls > 0 THEN rerank_input ELSE all_documents
            started(w) == wpc[w] # "unstarted"
            part(w) == IF started(w) THEN BagOfSeq(found[w]) ELSE EmptyBag
        IN  /\ BagOfSeq(pooled) =
                  part("embedding_search") (+) part("full_text_index_search")
            /\ \A w \in Workers : started(w) => cursor[w] = Len(found[w])

C8_Witness ==
    /\ pc = "log"
    /\ rerank_calls = 1
    /\ \A w \in Workers : wpc[w] = "done"
    /\ Len(found["embedding_search"]) = 1
    /\ Len(found["full_text_index_search"]) = 1
    /\ found["embedding_search"] # found["full_text_index_search"]
    /\ rerank_input = found["full_text_index_search"] \o found["embedding_search"]

\* C9: for a vector count of at least 2 the perplexity is count/2 + 1 unless
\* that is >= count, when it is max(count - 1, 1); so it is at least 1 and
\* less than count, and exactly 1 for count = 2.  (perplexity_x2 is twice
\* the perplexity.)
C9_PerplexityClamp ==
    (pc \in {"tsne_done", "done"} /\ embedding_length >= 2) =>
        /\ perplexity_x2 =
              (IF embedding_length + 2 >= 2 * embedding_length
               THEN (IF embedding_length - 1 >= 1
                     THEN 2 * (embedding_length - 1) ELSE 2)
               ELSE embedding_length + 2)
        /\ perplexity_x2 >= 2
        /\ perplexity_x2 < 2 * embedding_length
        /\ embedding_length = 2 => perplexity_x2 = 2

C9_Witness ==
    /\ pc = "tsne_done"
    /\ embedding_length = 2
    /\ perplexity_x2 = 2

\* C10: one vector alone gets position {0,0} and the reducer is not run:
\* a call on a non-empty dataset that ends with no fragment returns query
\* position {0,0} and no records, and after the query's position is popped
\* exactly one position per fragment is left.
C10_SingleVector ==
    (pc = "done" /\ NonEmptyDataset) =>
        /\ Len(tsne_position_data) = Len(all_documents)
        /\ embedding_length = Len(all_documents) + 1
        /\ all_documents = <<>> =>
              /\ result = [query |-> [content |-> query,
                                      tsne_position |-> [x |-> 0, y |-> 0]],
                           records |-> <<>>]
              /\ perplexity_x2 = 0

C10_Witness ==
    /\ pc = "done"
    /\ NonEmptyDataset
    /\ embedding_length = 1
    /\ result.query.tsne_position = [x |-> 0, y |-> 0]
    /\ result.records = <<>>
    /\ Len(dataset_queries) = 1

====
